---- MODULE Spec2Model ----
(***************************************************************************)
(* Login-session lifecycle of backend/api/auth.py: the Session Registry    *)
(* (state), the Realtime Notifier (ws_manager), the background QR watch    *)
(* (_monitor_qr) and the request handlers start_login, check_status,       *)
(* send_password, list_logins, start_listen and stop_listen.               *)
(*                                                                         *)
(* Scheduling is asyncio's: one handler runs at a time and control passes  *)
(* to another task only at an await that really suspends.  Each action of  *)
(* this module is one such uninterrupted run of a handler, from one        *)
(* suspension (or the call) to the next suspension (or the return).  The   *)
(* awaits that suspend are the ones that talk to the messaging platform    *)
(* (create_qr_login, qr.wait, client.sign_in, client.get_me) or to the     *)
(* subscribers (ws_manager.broadcast); state.get never blocks on I/O.      *)
(*                                                                         *)
(* LoginState and ws_manager are imported by auth.py from modules of the   *)
(* repository that are not among the sources; they are modelled from the   *)
(* specification (sections 4.1 and 4.2).  The messaging client is a black  *)
(* box: each of its capabilities may succeed or fail at any time.          *)
(***************************************************************************)
EXTENDS Integers, Sequences, FiniteSets, Bags, TLC

\* Bounds of the model.  Spec leaves list_logins out and SpecList leaves
\* start_listen and stop_listen out: a listing writes nothing another
\* handler reads, and the listener fields are read by no handler of the
\* login lifecycle.
MaxLogins == 1      \* login records that start_login may create
MaxTasks == 2       \* request handlers suspended at the same time
MaxEvents == 2      \* broadcasts per login_id (caps the send_password calls)
MaxConnections == 2 \* realtime connections that may subscribe

LoginIds == 1..MaxLogins

\* The login_id a request may carry: the id of a record, of a record that
\* is not created yet, or a token that never names a record.
RequestIds == 1..(MaxLogins + 1)

Connections == 1..MaxConnections

VARIABLES
    data,       \* state.data: login_id -> record, in insertion order
    handlers,   \* per client handle: number of registered message callbacks
    watch,      \* per login_id: the _monitor_qr task: where it is, how
                \* qr.wait() ended, what it wrote and broadcast, and how its
                \* ws_manager.broadcast ended
    events,     \* per login_id: the events handed to ws_manager.broadcast
    signins,    \* per login_id: for each client.sign_in that succeeded, how
                \* far the watch had come (its outcome) at that moment
    tasks,      \* bag of the request handlers that are suspended at an await
    subscribers, \* ws_manager: the connections currently subscribed
    inbox,      \* per connection: the events its send delivered
    fanout,     \* the latest ws_manager.broadcast: its event, the subscribers
                \* it took, those still to be sent to, those delivered to,
                \* those whose send failed, and how the call ended
    resp        \* the response a handler is returning, NoResp once it is sent

ws_manager == <<subscribers, inbox, fanout>>

vars == <<data, handlers, watch, events, signins, tasks, resp, ws_manager>>

----------------------------------------------------------------------------
\* Session Registry (backend.storage.login_state.LoginState)

\* The record state.create inserts.  listener_handler 0 is "no such key".
NewRecord == [status |-> "pending", listener_started |-> FALSE, listener_handler |-> 0]

\* login_id = qr.token.hex(): a token never seen before.  The n-th login
\* created gets the id n, so DOMAIN data = 1..Len(data) is the dict's
\* insertion order.
Known(login_id) == login_id \in DOMAIN data

create(d, login_id) == d @@ (login_id :> NewRecord)

set_status(d, login_id, status) ==
    IF login_id \in DOMAIN d
    THEN [d EXCEPT ![login_id].status = status]
    ELSE d

set_listener_started(d, login_id, flag) ==
    IF login_id \in DOMAIN d
    THEN [d EXCEPT ![login_id].listener_started = flag]
    ELSE d

----------------------------------------------------------------------------
\* Realtime Notifier (backend.storage.ws_manager.ws_manager)

\* broadcast(event): the event {type, login_id} is handed to the Notifier.
broadcast(ev, type, login_id) == [ev EXCEPT ![login_id] = Append(@, type)]

----------------------------------------------------------------------------
\* Suspended handlers and responses

NoBase == [status |-> "none", listener_started |-> FALSE]

IdleTask == [op |-> "none", login_id |-> 0, pc |-> "none", sent |-> << >>, ext |-> << >>,
             wrote |-> "none", st0 |-> "none", keys |-> 0, base |-> NoBase,
             seen |-> {}, out |-> << >>, bcast |-> "none"]

NoResp == [op |-> "none", login_id |-> 0, res |-> "none", sent |-> << >>, ext |-> << >>,
           wrote |-> "none", st0 |-> "none", seen |-> {}, out |-> << >>, bcast |-> "none",
           keys |-> 0]

Suspended == BagToSet(tasks)

Suspend(r) == tasks (+) SetToBag({r})

Resume(r, r2) == (tasks (-) SetToBag({r})) (+) SetToBag({r2})

Finish(r) == tasks (-) SetToBag({r})

CanAccept == BagCardinality(tasks) < MaxTasks

\* The number of suspended handlers among the kinds in S.
Count(S) == BagCardinality([r \in S \cap Suspended |-> tasks[r]])

Response(r, res) == [op |-> r.op, login_id |-> r.login_id, res |-> res, sent |-> r.sent,
                     ext |-> r.ext, wrote |-> r.wrote, st0 |-> r.st0,
                     seen |-> r.seen, out |-> r.out, bcast |-> r.bcast, keys |-> r.keys]

\* The response of the last handler has gone out: handlers run one at a time.
Ready == resp = NoResp

\* The records whose status is authorized.
Authorized == {i \in DOMAIN data : data[i].status = "authorized"}

\* What a step handed to ws_manager.broadcast for login_id.
Sent(login_id) == SubSeq(events'[login_id], Len(events[login_id]) + 1, Len(events'[login_id]))

\* No broadcast has been made yet.
NoFanout == [pc |-> "idle", event |-> [type |-> "none", login_id |-> 0], taken |-> {},
             pending |-> {}, delivered |-> {}, failed |-> {}, outcome |-> "none"]

\* The _monitor_qr task of a login that does not exist yet.
NoWatch == [pc |-> "none", outcome |-> "none", wrote |-> << >>, sent |-> << >>,
            bcast |-> "none"]

Init ==
    /\ data = << >>
    /\ handlers = [i \in LoginIds |-> 0]
    /\ watch = [i \in LoginIds |-> NoWatch]
    /\ events = [i \in LoginIds |-> << >>]
    /\ signins = [i \in LoginIds |-> << >>]
    /\ tasks = EmptyBag
    /\ resp = NoResp
    /\ subscribers = {}
    /\ inbox = [c \in Connections |-> << >>]
    /\ fanout = NoFanout

----------------------------------------------------------------------------
\* start_login

\* POST /start arrives; the handler suspends in create_qr_login().
start_login_call ==
    /\ Ready
    /\ CanAccept
    /\ Len(data) + Count({r \in Suspended : r.op = "start"}) < MaxLogins
    /\ tasks' = Suspend([IdleTask EXCEPT !.op = "start", !.pc = "qr"])
    /\ UNCHANGED <<data, handlers, watch, events, signins, resp, ws_manager>>

\* Mutant: the handler awaits _monitor_qr() instead of launching it, so it
\* returns only once qr.wait() has ended.
start_login_created_awaits_watch(r) ==
    /\ Ready
    /\ r.op = "start" /\ r.pc = "qr"
    /\ LET login_id == Len(data) + 1 IN
        /\ data' = set_status(create(data, login_id), login_id, "authorized")
        /\ events' = broadcast(events, "authorized", login_id)
        /\ watch' = [watch EXCEPT ![login_id] =
                        [NoWatch EXCEPT !.pc = "done", !.outcome = "success",
                                        !.wrote = <<"authorized">>,
                                        !.sent = <<"authorized">>, !.bcast = "ok"]]
        /\ tasks' = Finish(r)
        /\ resp' = Response([r EXCEPT !.login_id = login_id], "ok")
    /\ UNCHANGED <<handlers, signins, ws_manager>>

\* create_qr_login() returned: the record is created, the watch is launched
\* with asyncio.create_task and the challenge is returned.
start_login_created(r) ==
    /\ Ready
    /\ r.op = "start" /\ r.pc = "qr"
    /\ LET login_id == Len(data) + 1 IN
        /\ data' = create(data, login_id)
        /\ watch' = [watch EXCEPT ![login_id] = [NoWatch EXCEPT !.pc = "waiting"]]
        /\ tasks' = Finish(r)
        /\ resp' = Response([r EXCEPT !.login_id = login_id], "ok")
    /\ UNCHANGED <<handlers, events, signins, ws_manager>>

\* create_qr_login() raised: nothing was created.
start_login_failed(r) ==
    /\ Ready
    /\ r.op = "start" /\ r.pc = "qr"
    /\ tasks' = Finish(r)
    /\ resp' = Response(r, "500")
    /\ UNCHANGED <<data, handlers, watch, events, signins, ws_manager>>

----------------------------------------------------------------------------
\* _monitor_qr, the background watch

WatchSuccessStatus == "authorized"

\* Mutant: the success branch announces the event of the 2FA branch.
WatchSuccessEvent_need_password == "need_password"

WatchSuccessEvent == "authorized"

WatchPasswordStatus == "need_password"

WatchPasswordEvent == "need_password"

\* qr.wait() returned: plain success.
monitor_qr_success(login_id) ==
    /\ Ready
    /\ watch[login_id].pc = "waiting"
    /\ data' = set_status(data, login_id, WatchSuccessStatus)
    /\ events' = broadcast(events, WatchSuccessEvent, login_id)
    /\ watch' = [watch EXCEPT ![login_id] =
                    [@ EXCEPT !.pc = "bcast", !.outcome = "success",
                              !.wrote = Append(@, data'[login_id].status),
                              !.sent = @ \o Sent(login_id)]]
    /\ UNCHANGED <<handlers, signins, tasks, resp, ws_manager>>

\* Mutant: the need_password event is broadcast without the status write.
monitor_qr_password_unwritten(login_id) ==
    /\ Ready
    /\ watch[login_id].pc = "waiting"
    /\ events' = broadcast(events, WatchPasswordEvent, login_id)
    /\ watch' = [watch EXCEPT ![login_id] =
                    [@ EXCEPT !.pc = "bcast", !.outcome = "password",
                              !.sent = @ \o Sent(login_id)]]
    /\ UNCHANGED <<data, handlers, signins, tasks, resp, ws_manager>>

\* qr.wait() raised SessionPasswordNeededError.
monitor_qr_password(login_id) ==
    /\ Ready
    /\ watch[login_id].pc = "waiting"
    /\ data' = set_status(data, login_id, WatchPasswordStatus)
    /\ events' = broadcast(events, WatchPasswordEvent, login_id)
    /\ watch' = [watch EXCEPT ![login_id] =
                    [@ EXCEPT !.pc = "bcast", !.outcome = "password",
                              !.wrote = Append(@, data'[login_id].status),
                              !.sent = @ \o Sent(login_id)]]
    /\ UNCHANGED <<handlers, signins, tasks, resp, ws_manager>>

\* Mutant: the except Exception branch marks the login failed.
monitor_qr_error_marks_failed(login_id) ==
    /\ Ready
    /\ watch[login_id].pc = "waiting"
    /\ data' = set_status(data, login_id, "failed")
    /\ watch' = [watch EXCEPT ![login_id] =
                    [@ EXCEPT !.pc = "done", !.outcome = "error",
                              !.wrote = Append(@, data'[login_id].status)]]
    /\ UNCHANGED <<handlers, events, signins, tasks, resp, ws_manager>>

\* qr.wait() raised anything else: logged, the watch ends.
monitor_qr_error(login_id) ==
    /\ Ready
    /\ watch[login_id].pc = "waiting"
    /\ watch' = [watch EXCEPT ![login_id] = [@ EXCEPT !.pc = "done", !.outcome = "error"]]
    /\ UNCHANGED <<data, handlers, events, signins, tasks, resp, ws_manager>>

\* Mutant: after the broadcast the watch waits on the challenge again.
monitor_qr_done_restarts(login_id) ==
    /\ Ready
    /\ watch[login_id].pc = "bcast"
    /\ watch' = [watch EXCEPT ![login_id] = [@ EXCEPT !.pc = "waiting", !.bcast = "ok"]]
    /\ UNCHANGED <<data, handlers, events, signins, tasks, resp, ws_manager>>

\* ws_manager.broadcast returned: the watch ends.
monitor_qr_done(login_id) ==
    /\ Ready
    /\ watch[login_id].pc = "bcast"
    /\ watch' = [watch EXCEPT ![login_id] = [@ EXCEPT !.pc = "done", !.bcast = "ok"]]
    /\ UNCHANGED <<data, handlers, events, signins, tasks, resp, ws_manager>>

\* ws_manager.broadcast raised: the exception is logged, the watch ends.
monitor_qr_broadcast_raised(login_id) ==
    /\ Ready
    /\ watch[login_id].pc = "bcast"
    /\ watch' = [watch EXCEPT ![login_id] = [@ EXCEPT !.pc = "done", !.bcast = "raised"]]
    /\ UNCHANGED <<data, handlers, events, signins, tasks, resp, ws_manager>>

----------------------------------------------------------------------------
\* send_password

\* Mutant: the handler writes the watch's status instead of authorized.
PasswordOkStatus_need_password == "need_password"

PasswordOkStatus == "authorized"

\* Mutant: the handler announces the wrong event.
PasswordOkEvent_need_password == "need_password"

PasswordOkEvent == "authorized"

\* The broadcasts for login_id that are still to come from the watch and
\* from the send_password calls waiting in client.sign_in.
PendingBroadcasts(login_id) ==
    LET SigningIn == {r \in Suspended : /\ r.op = "password" /\ r.pc = "sign_in"
                                        /\ r.login_id = login_id}
    IN Count(SigningIn) + (IF watch[login_id].pc \in {"none", "waiting"} THEN 1 ELSE 0)

\* Mutant: the `if not item` check is missing; the sign-in on the absent
\* client raises and is reported as 400.
send_password_not_found_unchecked(login_id) ==
    /\ Ready
    /\ ~Known(login_id)
    /\ resp' = Response([IdleTask EXCEPT !.op = "password", !.login_id = login_id,
                                         !.ext = <<"sign_in_failed">>], "400")
    /\ UNCHANGED <<data, handlers, watch, events, signins, tasks, ws_manager>>

\* POST /password for a login_id that state.get does not find: 404.
send_password_not_found(login_id) ==
    /\ Ready
    /\ ~Known(login_id)
    /\ resp' = Response([IdleTask EXCEPT !.op = "password", !.login_id = login_id], "404")
    /\ UNCHANGED <<data, handlers, watch, events, signins, tasks, ws_manager>>

\* POST /password for a known login_id: the handler suspends in
\* client.sign_in(password=...).
send_password_call(login_id) ==
    /\ Ready
    /\ CanAccept
    /\ Known(login_id)
    /\ Len(events[login_id]) + PendingBroadcasts(login_id) < MaxEvents
    /\ tasks' = Suspend([IdleTask EXCEPT !.op = "password", !.login_id = login_id,
                                         !.pc = "sign_in"])
    /\ UNCHANGED <<data, handlers, watch, events, signins, resp, ws_manager>>

\* client.sign_in returned: the status is written and the authorized event
\* is handed to ws_manager.broadcast, where the handler suspends.
send_password_accepted(r) ==
    /\ Ready
    /\ r.op = "password" /\ r.pc = "sign_in"
    /\ data' = set_status(data, r.login_id, PasswordOkStatus)
    /\ events' = broadcast(events, PasswordOkEvent, r.login_id)
    /\ signins' = [signins EXCEPT ![r.login_id] = Append(@, watch[r.login_id].outcome)]
    /\ tasks' = Resume(r, [r EXCEPT !.pc = "bcast", !.sent = @ \o Sent(r.login_id),
                                   !.ext = Append(@, "sign_in_ok"),
                                   !.st0 = data[r.login_id].status,
                                   !.wrote = data'[r.login_id].status])
    /\ UNCHANGED <<handlers, watch, resp, ws_manager>>

\* Mutant: a rejected password marks the login failed.
send_password_rejected_marks_failed(r) ==
    /\ Ready
    /\ r.op = "password" /\ r.pc = "sign_in"
    /\ data' = set_status(data, r.login_id, "failed")
    /\ tasks' = Finish(r)
    /\ resp' = Response([r EXCEPT !.ext = Append(@, "sign_in_failed")], "400")
    /\ UNCHANGED <<handlers, watch, events, signins, ws_manager>>

\* client.sign_in raised: 400 "Invalid password".
send_password_rejected(r) ==
    /\ Ready
    /\ r.op = "password" /\ r.pc = "sign_in"
    /\ tasks' = Finish(r)
    /\ resp' = Response([r EXCEPT !.ext = Append(@, "sign_in_failed")], "400")
    /\ UNCHANGED <<data, handlers, watch, events, signins, ws_manager>>

\* ws_manager.broadcast returned: {"status": "ok"}.
send_password_return(r) ==
    /\ Ready
    /\ r.op = "password" /\ r.pc = "bcast"
    /\ tasks' = Finish(r)
    /\ resp' = Response([r EXCEPT !.bcast = "ok"], "ok")
    /\ UNCHANGED <<data, handlers, watch, events, signins, ws_manager>>

\* Mutant: the broadcast is not wrapped in its own try/except, so its
\* exception reaches the handler's except Exception: 400 "Invalid password".
send_password_broadcast_unguarded(r) ==
    /\ Ready
    /\ r.op = "password" /\ r.pc = "bcast"
    /\ tasks' = Finish(r)
    /\ resp' = Response([r EXCEPT !.bcast = "raised"], "400")
    /\ UNCHANGED <<data, handlers, watch, events, signins, ws_manager>>

\* ws_manager.broadcast raised: the exception is logged, {"status": "ok"}.
send_password_broadcast_raised(r) ==
    /\ Ready
    /\ r.op = "password" /\ r.pc = "bcast"
    /\ tasks' = Finish(r)
    /\ resp' = Response([r EXCEPT !.bcast = "raised"], "ok")
    /\ UNCHANGED <<data, handlers, watch, events, signins, ws_manager>>

----------------------------------------------------------------------------
\* check_status: logging only, 204 for a known and for an unknown login_id.

\* Mutant: the status check registers the message listener of a known login.
check_status_starts_listener(login_id) ==
    /\ Ready
    /\ handlers' = IF Known(login_id) THEN [handlers EXCEPT ![login_id] = @ + 1] ELSE handlers
    /\ data' = IF Known(login_id) THEN set_listener_started(data, login_id, TRUE) ELSE data
    /\ resp' = Response([IdleTask EXCEPT !.op = "status", !.login_id = login_id,
                                         !.ext = IF Known(login_id) THEN <<"register_ok">> ELSE << >>],
                        "204")
    /\ UNCHANGED <<watch, events, signins, tasks, ws_manager>>

check_status(login_id) ==
    /\ Ready
    /\ resp' = Response([IdleTask EXCEPT !.op = "status", !.login_id = login_id], "204")
    /\ UNCHANGED <<data, handlers, watch, events, signins, tasks, ws_manager>>

----------------------------------------------------------------------------
\* list_logins

\* base = dict(state.data.get(login_id, {})): the fields listed for a record.
Base(login_id) ==
    IF Known(login_id)
    THEN [status |-> data[login_id].status,
          listener_started |-> data[login_id].listener_started]
    ELSE NoBase

\* entry = {"login_id": login_id, **base}; entry["username"] = username
Entry(login_id, base, username) ==
    [login_id |-> login_id, status |-> base.status,
     listener_started |-> base.listener_started, username |-> username]

\* GET /logins with an empty registry: the loop body never runs.
list_logins_empty ==
    /\ Ready
    /\ Len(data) = 0
    /\ resp' = Response([IdleTask EXCEPT !.op = "list"], "ok")
    /\ UNCHANGED <<data, handlers, watch, events, signins, tasks, ws_manager>>

\* GET /logins: the keys are snapshotted, the first record is copied and
\* the handler suspends in client.get_me().
list_logins_call ==
    /\ Ready
    /\ CanAccept
    /\ \A r \in Suspended : r.op # "list"   \* one listing at a time
    /\ Len(data) > 0
    /\ tasks' = Suspend([IdleTask EXCEPT !.op = "list", !.pc = "get_me", !.keys = Len(data),
                                         !.login_id = 1, !.base = Base(1),
                                         !.seen = Authorized])
    /\ UNCHANGED <<data, handlers, watch, events, signins, resp, ws_manager>>

\* How client.get_me() may end: a profile with a name, a profile without
\* one (or no profile), an exception.
GetMe == {"name", "anonymous", "raised"}

\* username = getattr(me, "username", None) or getattr(me, "first_name", None);
\* None when get_me raised.
Username(me) == IF me = "name" THEN "name" ELSE "None"

\* Mutant: an exception of client.get_me() is not caught and ends the
\* handler with a 500.
list_logins_me_unguarded(r, me) ==
    /\ Ready
    /\ r.op = "list" /\ r.pc = "get_me"
    /\ LET out == Append(r.out, Entry(r.login_id, r.base, Username(me)))
           ext == Append(r.ext, IF me = "raised" THEN "get_me_failed" ELSE "get_me_ok")
           next == r.login_id + 1
       IN IF me = "raised"
          THEN /\ tasks' = Finish(r)
               /\ resp' = Response([r EXCEPT !.ext = ext, !.login_id = 0], "500")
          ELSE IF next <= r.keys
          THEN /\ tasks' = Resume(r, [r EXCEPT !.out = out, !.ext = ext, !.login_id = next,
                                               !.base = Base(next)])
               /\ resp' = resp
          ELSE /\ tasks' = Finish(r)
               /\ resp' = Response([r EXCEPT !.out = out, !.ext = ext, !.login_id = 0], "ok")
    /\ UNCHANGED <<data, handlers, watch, events, signins, ws_manager>>

\* client.get_me() returned or raised: the entry is appended; the next
\* record is copied and the handler suspends again, or the list is
\* returned.
list_logins_me(r, me) ==
    /\ Ready
    /\ r.op = "list" /\ r.pc = "get_me"
    /\ LET out == Append(r.out, Entry(r.login_id, r.base, Username(me)))
           ext == Append(r.ext, IF me = "raised" THEN "get_me_failed" ELSE "get_me_ok")
           next == r.login_id + 1
       IN IF next <= r.keys
          THEN /\ tasks' = Resume(r, [r EXCEPT !.out = out, !.ext = ext, !.login_id = next,
                                               !.base = Base(next)])
               /\ resp' = resp
          ELSE /\ tasks' = Finish(r)
               /\ resp' = Response([r EXCEPT !.out = out, !.ext = ext, !.login_id = 0], "ok")
    /\ UNCHANGED <<data, handlers, watch, events, signins, ws_manager>>

----------------------------------------------------------------------------
\* start_listen and stop_listen

\* setup_message_listener registered the callback on the client:
\* state.set_listener_started(login_id, True); item["listener_handler"] = handler
Attached(d, login_id) ==
    [set_listener_started(d, login_id, TRUE) EXCEPT ![login_id].listener_handler = 1]

\* Mutant: the handle is popped but listener_started is left set.
Detached_keeps_flag(d, login_id) == [d EXCEPT ![login_id].listener_handler = 0]

\* client.remove_event_handler(handler) returned:
\* item.pop("listener_handler", None); state.set_listener_started(login_id, False)
Detached(d, login_id) ==
    set_listener_started([d EXCEPT ![login_id].listener_handler = 0], login_id, FALSE)

\* Mutant: the already-listening check never fires.
AlreadyListening_unchecked(login_id) == FALSE

\* if item.get("listener_started")
AlreadyListening(login_id) == data[login_id].listener_started

\* Mutant: the not-listening check never fires.
NotListening_unchecked(login_id) == FALSE

\* handler = item.get("listener_handler"); if not handler
NotListening(login_id) == data[login_id].listener_handler = 0

ListenTask(op, login_id) == [IdleTask EXCEPT !.op = op, !.login_id = login_id]

start_listen_not_found(login_id) ==
    /\ Ready
    /\ ~Known(login_id)
    /\ resp' = Response(ListenTask("listen", login_id), "404")
    /\ UNCHANGED <<data, handlers, watch, events, signins, tasks, ws_manager>>

start_listen_already(login_id) ==
    /\ Ready
    /\ Known(login_id)
    /\ AlreadyListening(login_id)
    /\ resp' = Response(ListenTask("listen", login_id), "already_listening")
    /\ UNCHANGED <<data, handlers, watch, events, signins, tasks, ws_manager>>

\* Mutant: listener_started is set before setup_message_listener is awaited.
start_listen_failed_after_flag(login_id) ==
    /\ Ready
    /\ Known(login_id)
    /\ ~AlreadyListening(login_id)
    /\ data' = set_listener_started(data, login_id, TRUE)
    /\ resp' = Response([ListenTask("listen", login_id) EXCEPT !.ext = <<"register_failed">>], "500")
    /\ UNCHANGED <<handlers, watch, events, signins, tasks, ws_manager>>

\* setup_message_listener raised: 500 "Failed to start listener".
start_listen_failed(login_id) ==
    /\ Ready
    /\ Known(login_id)
    /\ ~AlreadyListening(login_id)
    /\ resp' = Response([ListenTask("listen", login_id) EXCEPT !.ext = <<"register_failed">>], "500")
    /\ UNCHANGED <<data, handlers, watch, events, signins, tasks, ws_manager>>

start_listen_ok(login_id) ==
    /\ Ready
    /\ Known(login_id)
    /\ ~AlreadyListening(login_id)
    /\ handlers' = [handlers EXCEPT ![login_id] = @ + 1]
    /\ data' = Attached(data, login_id)
    /\ resp' = Response([ListenTask("listen", login_id) EXCEPT !.ext = <<"register_ok">>], "ok")
    /\ UNCHANGED <<watch, events, signins, tasks, ws_manager>>

stop_listen_not_found(login_id) ==
    /\ Ready
    /\ ~Known(login_id)
    /\ resp' = Response(ListenTask("unlisten", login_id), "404")
    /\ UNCHANGED <<data, handlers, watch, events, signins, tasks, ws_manager>>

stop_listen_not_listening(login_id) ==
    /\ Ready
    /\ Known(login_id)
    /\ NotListening(login_id)
    /\ resp' = Response(ListenTask("unlisten", login_id), "not_listening")
    /\ UNCHANGED <<data, handlers, watch, events, signins, tasks, ws_manager>>

\* Mutant: the record is cleared before remove_event_handler is tried.
stop_listen_failed_after_clear(login_id) ==
    /\ Ready
    /\ Known(login_id)
    /\ ~NotListening(login_id)
    /\ data' = Detached(data, login_id)
    /\ resp' = Response([ListenTask("unlisten", login_id)
                            EXCEPT !.ext = <<"unregister_failed">>], "500")
    /\ UNCHANGED <<handlers, watch, events, signins, tasks, ws_manager>>

\* client.remove_event_handler raised: 500 "Failed to stop listener".
stop_listen_failed(login_id) ==
    /\ Ready
    /\ Known(login_id)
    /\ ~NotListening(login_id)
    /\ resp' = Response([ListenTask("unlisten", login_id) EXCEPT !.ext = <<"unregister_failed">>], "500")
    /\ UNCHANGED <<data, handlers, watch, events, signins, tasks, ws_manager>>

stop_listen_ok(login_id) ==
    /\ Ready
    /\ Known(login_id)
    /\ ~NotListening(login_id)
    /\ handlers' = [handlers EXCEPT ![login_id] = IF @ > 0 THEN @ - 1 ELSE 0]
    /\ data' = Detached(data, login_id)
    /\ resp' = Response([ListenTask("unlisten", login_id) EXCEPT !.ext = <<"unregister_ok">>], "ok")
    /\ UNCHANGED <<watch, events, signins, tasks, ws_manager>>

----------------------------------------------------------------------------
\* The handler's return value (or HTTPException) goes out as the response.
respond ==
    /\ ~Ready
    /\ resp' = NoResp
    /\ UNCHANGED <<data, handlers, watch, events, signins, tasks, ws_manager>>

----------------------------------------------------------------------------

\* The login lifecycle and the listener attachment: every handler but
\* list_logins, which writes nothing that another handler reads.
----------------------------------------------------------------------------
\* Realtime Notifier (backend.storage.ws_manager): the fan-out of one
\* broadcast to the subscribers.  A send suspends the broadcast, so
\* connections subscribe and unsubscribe while it is in progress.

subscribe(c) ==
    /\ c \notin subscribers
    /\ subscribers' = subscribers \cup {c}
    /\ UNCHANGED <<data, handlers, watch, events, signins, tasks, resp, inbox, fanout>>

\* Idempotent removal.
unsubscribe(c) ==
    /\ subscribers' = subscribers \ {c}
    /\ UNCHANGED <<data, handlers, watch, events, signins, tasks, resp, inbox, fanout>>

\* The broadcast has sent to every subscriber it took: it returns.
Sending(f) == IF f.pending = {} THEN [f EXCEPT !.pc = "done", !.outcome = "returned"] ELSE f

\* The number of broadcasts made so far for the logins up to n.
RECURSIVE Broadcasts(_)
Broadcasts(n) == IF n = 0 THEN 0 ELSE Len(events[n]) + Broadcasts(n - 1)

\* broadcast(event): the current subscribers are taken; with none the call
\* returns at once.
ws_broadcast_call(type, login_id) ==
    /\ fanout.pc # "sending"
    /\ Broadcasts(MaxLogins) < MaxEvents
    /\ events' = broadcast(events, type, login_id)
    /\ fanout' = Sending([NoFanout EXCEPT !.pc = "sending",
                                          !.event = [type |-> type, login_id |-> login_id],
                                          !.taken = subscribers, !.pending = subscribers])
    /\ UNCHANGED <<data, handlers, watch, signins, tasks, resp, subscribers, inbox>>

\* The send to subscriber c succeeded.
ws_send_ok(c) ==
    /\ fanout.pc = "sending"
    /\ c \in fanout.pending
    /\ inbox' = [inbox EXCEPT ![c] = Append(@, fanout.event)]
    /\ fanout' = Sending([fanout EXCEPT !.pending = @ \ {c}, !.delivered = @ \cup {c}])
    /\ UNCHANGED <<data, handlers, watch, events, signins, tasks, resp, subscribers>>

\* Mutant: the failure of one send is raised out of broadcast.
ws_send_failed_propagates(c) ==
    /\ fanout.pc = "sending"
    /\ c \in fanout.pending
    /\ fanout' = [fanout EXCEPT !.pc = "done", !.outcome = "raised", !.failed = @ \cup {c}]
    /\ UNCHANGED <<data, handlers, watch, events, signins, tasks, resp, subscribers, inbox>>

\* The send to subscriber c failed: caught, logged, c is removed from the
\* subscribers and the broadcast goes on.
ws_send_failed(c) ==
    /\ fanout.pc = "sending"
    /\ c \in fanout.pending
    /\ subscribers' = subscribers \ {c}
    /\ fanout' = Sending([fanout EXCEPT !.pending = @ \ {c}, !.failed = @ \cup {c}])
    /\ UNCHANGED <<data, handlers, watch, events, signins, tasks, resp, inbox>>

\* The Notifier on its own: connections come and go while events are
\* broadcast.
NextNotifier ==
    \/ \E c \in Connections : subscribe(c)
    \/ \E c \in Connections : unsubscribe(c)
    \/ \E type \in {"need_password", "authorized"}, i \in LoginIds : ws_broadcast_call(type, i)
    \/ \E c \in Connections : ws_send_ok(c)
    \/ \E c \in Connections : ws_send_failed(c)

SpecNotifier == Init /\ [][NextNotifier]_vars

----------------------------------------------------------------------------
\* Specifications

Next ==
    \/ start_login_call
    \/ \E r \in Suspended : start_login_created(r)
    \/ \E r \in Suspended : start_login_failed(r)
    \/ \E i \in LoginIds : monitor_qr_success(i)
    \/ \E i \in LoginIds : monitor_qr_password(i)
    \/ \E i \in LoginIds : monitor_qr_error(i)
    \/ \E i \in LoginIds : monitor_qr_done(i)
    \/ \E i \in LoginIds : monitor_qr_broadcast_raised(i)
    \/ \E i \in RequestIds : send_password_not_found(i)
    \/ \E i \in RequestIds : send_password_call(i)
    \/ \E r \in Suspended : send_password_accepted(r)
    \/ \E r \in Suspended : send_password_rejected(r)
    \/ \E r \in Suspended : send_password_return(r)
    \/ \E r \in Suspended : send_password_broadcast_raised(r)
    \/ \E i \in RequestIds : check_status(i)
    \/ \E i \in RequestIds : start_listen_not_found(i)
    \/ \E i \in RequestIds : start_listen_already(i)
    \/ \E i \in RequestIds : start_listen_failed(i)
    \/ \E i \in RequestIds : start_listen_ok(i)
    \/ \E i \in RequestIds : stop_listen_not_found(i)
    \/ \E i \in RequestIds : stop_listen_not_listening(i)
    \/ \E i \in RequestIds : stop_listen_failed(i)
    \/ \E i \in RequestIds : stop_listen_ok(i)
    \/ respond

Spec == Init /\ [][Next]_vars

\* The login lifecycle with list_logins.  start_listen and stop_listen
\* touch only the listener fields, which no handler of the lifecycle reads;
\* how a broadcast ends changes no state a listing reads.
NextList ==
    \/ start_login_call
    \/ \E r \in Suspended : start_login_created(r)
    \/ \E r \in Suspended : start_login_failed(r)
    \/ \E i \in LoginIds : monitor_qr_success(i)
    \/ \E i \in LoginIds : monitor_qr_password(i)
    \/ \E i \in LoginIds : monitor_qr_error(i)
    \/ \E i \in LoginIds : monitor_qr_done(i)
    \/ \E i \in RequestIds : send_password_not_found(i)
    \/ \E i \in RequestIds : send_password_call(i)
    \/ \E r \in Suspended : send_password_accepted(r)
    \/ \E r \in Suspended : send_password_rejected(r)
    \/ \E r \in Suspended : send_password_return(r)
    \/ list_logins_empty
    \/ list_logins_call
    \/ \E r \in Suspended, me \in {"name", "raised"} : list_logins_me(r, me)
    \/ respond

SpecList == Init /\ [][NextList]_vars

\* list_logins over records whose status and listener fields differ and
\* change while the listing is suspended: the watch and start_listen /
\* stop_listen run next to it, and get_me ends in each of its ways.
NextProfiles ==
    \/ start_login_call
    \/ \E r \in Suspended : start_login_created(r)
    \/ \E r \in Suspended : start_login_failed(r)
    \/ \E i \in LoginIds : monitor_qr_success(i)
    \/ \E i \in LoginIds : monitor_qr_password(i)
    \/ \E i \in LoginIds : monitor_qr_error(i)
    \/ \E i \in LoginIds : monitor_qr_done(i)
    \/ \E i \in RequestIds : start_listen_ok(i)
    \/ \E i \in RequestIds : stop_listen_ok(i)
    \/ list_logins_empty
    \/ list_logins_call
    \/ \E r \in Suspended, me \in GetMe : list_logins_me(r, me)
    \/ respond

SpecProfiles == Init /\ [][NextProfiles]_vars

----------------------------------------------------------------------------
\* Properties

\* The HTTP shape of the errors of section 7.
NotFound == "404"
InvalidCredentials == "400"
DetachFailed == "500"

\* The step is the one in which a handler of `op` returns.
Returns(op) == Ready /\ resp'.op = op

AllowedStatusChanges ==
    {<<"pending", "need_password">>, <<"pending", "authorized">>,
     <<"need_password", "authorized">>}
    \cup {<<s, "failed">> : s \in {"pending", "need_password", "authorized"}}

\* C1: every change of a record's status is pending -> need_password,
\* pending -> authorized, need_password -> authorized or any -> failed,
\* whatever the interleaving of the watch and the send_password calls.
C1_StatusMovesForward ==
    [][\A i \in DOMAIN data :
          data'[i].status # data[i].status
              => <<data[i].status, data'[i].status>> \in AllowedStatusChanges]_vars

\* C2: a send_password call whose sign-in succeeds while the status is
\* pending or need_password writes the status authorized, hands exactly one
\* authorized event to the Notifier and returns success.
C2_AcceptedPassword ==
    /\ \A r \in Suspended :
          (r.op = "password" /\ r.ext = <<"sign_in_ok">>
                /\ r.st0 \in {"pending", "need_password"})
              => r.wrote = "authorized" /\ r.sent = <<"authorized">>
    /\ (resp.op = "password" /\ resp.ext = <<"sign_in_ok">>
            /\ resp.st0 \in {"pending", "need_password"})
          => resp.res = "ok" /\ resp.wrote = "authorized" /\ resp.sent = <<"authorized">>

C2_Witness ==
    /\ resp.op = "password" /\ resp.ext = <<"sign_in_ok">>
    /\ resp.st0 = "need_password" /\ resp.res = "ok"

\* C3 as stated: after a send_password call whose sign-in failed the record
\* is in need_password.
C3_LeftInNeedPassword ==
    (resp.op = "password" /\ resp.ext = <<"sign_in_failed">>)
        => data[resp.login_id].status = "need_password"

\* C3 as amended: a send_password call on an existing record whose sign-in
\* fails returns InvalidCredentials, writes no status and broadcasts
\* nothing; the record keeps the status it had, whichever it was.
C3_RejectedPassword ==
    [][(Returns("password") /\ resp'.ext = <<"sign_in_failed">>)
          => /\ resp'.res = InvalidCredentials
             /\ resp'.wrote = "none" /\ resp'.sent = << >>
             /\ data' = data /\ events' = events]_vars

C3_Witness ==
    /\ resp.op = "password" /\ resp.ext = <<"sign_in_failed">>
    /\ data[resp.login_id].status = "pending"

\* C4: a send_password call for a login_id without a record returns
\* NotFound, invokes no sign-in, broadcasts nothing and leaves every record
\* as it was.
C4_UnknownLogin ==
    [][(Returns("password") /\ ~Known(resp'.login_id))
          => /\ resp'.res = NotFound
             /\ resp'.ext = << >> /\ resp'.sent = << >>
             /\ data' = data /\ events' = events /\ signins' = signins]_vars

C4_Witness ==
    /\ resp.op = "password" /\ resp.res = NotFound
    /\ data # << >> /\ ~Known(resp.login_id)

\* C5: when the watch has signalled password-needed and then one
\* send_password for the login succeeds, the Notifier has received for it
\* exactly need_password followed by authorized, and a list_logins made
\* afterwards reports the status authorized.
C5_PasswordFlow ==
    \A i \in DOMAIN data :
        signins[i] = <<"password">>
            => /\ events[i] = <<"need_password", "authorized">>
               /\ data[i].status = "authorized"
               /\ (resp.op = "list" /\ i \in resp.seen)
                     => resp.out[i].login_id = i /\ resp.out[i].status = "authorized"

C5_Witness ==
    /\ resp.op = "list"
    /\ \E i \in resp.seen : signins[i] = <<"password">>

\* C6: once the watch of a login has completed with plain success, the
\* Notifier has received authorized for it and never receives need_password
\* for it.
C6_PlainSuccess ==
    \A i \in LoginIds :
        watch[i].outcome = "success"
            => /\ \E k \in DOMAIN events[i] : events[i][k] = "authorized"
               /\ \A k \in DOMAIN events[i] : events[i][k] # "need_password"

C6_Witness ==
    \E i \in LoginIds :
        /\ watch[i].outcome = "success" /\ watch[i].pc = "done"
        /\ Len(events[i]) > 1

\* C7: between handler steps a record holds a listener handle exactly when
\* its listener_started flag is set.
C7_HandleIffStarted ==
    \A i \in DOMAIN data :
        (data[i].listener_handler # 0) <=> data[i].listener_started

C7_Witness ==
    /\ resp.op = "unlisten" /\ resp.res = "ok"
    /\ ~data[resp.login_id].listener_started

\* C8: start_listen on a record whose listener is active returns
\* already_listening, registers nothing and changes no state; a client
\* handle never carries more than one message callback.
C8_AttachIdempotent ==
    [][/\ \A i \in LoginIds : handlers'[i] <= 1
       /\ (Returns("listen") /\ Known(resp'.login_id)
                /\ data[resp'.login_id].listener_started)
             => /\ resp'.res = "already_listening"
                /\ resp'.ext = << >>
                /\ UNCHANGED <<data, handlers, watch, events, tasks>>]_vars

C8_Witness ==
    /\ resp.op = "listen" /\ resp.res = "already_listening"
    /\ handlers[resp.login_id] = 1

\* C9: stop_listen on an existing record without an active listener
\* returns not_listening, calls no unregistration and leaves the listener
\* fields as they were.
C9_DetachWithoutListener ==
    [][(Returns("unlisten") /\ Known(resp'.login_id)
            /\ ~data[resp'.login_id].listener_started)
          => /\ resp'.res = "not_listening"
             /\ resp'.ext = << >>
             /\ UNCHANGED <<data, handlers>>]_vars

C9_Witness ==
    /\ resp.op = "unlisten" /\ resp.res = "not_listening"
    /\ Known(resp.login_id)

\* C10: when remove_event_handler fails, stop_listen returns DetachFailed
\* and the record is unchanged: the handle is still stored and
\* listener_started is still true.
C10_DetachFailure ==
    [][(Returns("unlisten") /\ resp'.ext = <<"unregister_failed">>)
          => /\ resp'.res = DetachFailed
             /\ data' = data
             /\ data'[resp'.login_id].listener_handler # 0
             /\ data'[resp'.login_id].listener_started
             /\ handlers' = handlers]_vars

C10_Witness ==
    /\ resp.op = "unlisten" /\ resp.ext = <<"unregister_failed">>
    /\ resp.res = DetachFailed

AttachFailed == "500"

\* C11: when registering the callback fails during attach, start_listen
\* returns AttachFailed and the record is unchanged: listener_started stays
\* false and no handle is stored (nor is a handler left registered).
C11_AttachFailure ==
    [][(Returns("listen") /\ resp'.ext = <<"register_failed">>) =>
        /\ resp'.res = AttachFailed
        /\ data' = data
        /\ ~data'[resp'.login_id].listener_started
        /\ data'[resp'.login_id].listener_handler = 0
        /\ handlers' = handlers]_vars

C11_Witness ==
    /\ resp.op = "listen"
    /\ resp.ext = <<"register_failed">>
    /\ resp.res = AttachFailed
    /\ Known(resp.login_id)
    /\ ~data[resp.login_id].listener_started

\* C13: when the watch's wait ends with a failure other than
\* password-needed, the watch terminates without writing any status and
\* without broadcasting any event.
C13_WatchFailureIsSilent ==
    [][\A i \in LoginIds :
        (watch'[i].outcome = "error" /\ watch[i].outcome # "error") =>
            /\ data' = data
            /\ events' = events
            /\ watch'[i].pc = "done"
            /\ watch'[i].wrote = << >>
            /\ watch'[i].sent = << >>]_vars

C13_Witness ==
    \E i \in DOMAIN data :
        /\ watch[i].outcome = "error"
        /\ watch[i].pc = "done"
        /\ data[i].status = "pending"
        /\ events[i] = << >>

\* C14: check_status, for a known or an unknown login_id, leaves the
\* Registry and the Notifier unchanged, invokes no capability of the
\* messaging client and always answers "no content".
C14_StatusCheckIsInert ==
    [][Returns("status") =>
        /\ resp'.res = "204"
        /\ resp'.ext = << >>
        /\ resp'.sent = << >>
        /\ UNCHANGED <<data, handlers, watch, events, signins, tasks, ws_manager>>]_vars

C14_Witness ==
    /\ resp.op = "status"
    /\ resp.res = "204"
    /\ Known(resp.login_id)
    /\ data[resp.login_id].status = "authorized"

\* C15: start_login returns without waiting for the watch: in the step in
\* which it returns the challenge, the record is created with status pending
\* and the watch is still waiting (so the return does not depend on the wait
\* ever ending); the watch exists, and so can write a status, only for a
\* record that has been created.
C15_StartReturnsBeforeWatch ==
    [][/\ (Returns("start") /\ resp'.res = "ok") =>
            /\ ~Known(resp'.login_id)
            /\ resp'.login_id \in DOMAIN data'
            /\ data'[resp'.login_id] = NewRecord
            /\ watch[resp'.login_id] = NoWatch
            /\ watch'[resp'.login_id] = [NoWatch EXCEPT !.pc = "waiting"]
       /\ \A i \in LoginIds :
            watch'[i] # watch[i] => i \in DOMAIN data']_vars

\* The call has returned and the wait has not ended.
C15_Witness ==
    /\ resp.op = "start"
    /\ resp.res = "ok"
    /\ Known(resp.login_id)
    /\ data[resp.login_id].status = "pending"
    /\ watch[resp.login_id].pc = "waiting"

\* C17: a broadcast that raises never changes the outcome: send_password
\* whose sign-in succeeded has still set the status to authorized and still
\* returns success, and the watch still leaves the status it wrote.
C17_BroadcastFailureIsHarmless ==
    [][/\ (Returns("password") /\ resp'.bcast = "raised") =>
            /\ resp'.ext = <<"sign_in_ok">>
            /\ resp'.wrote = "authorized"
            /\ resp'.res = "ok"
            /\ data' = data
       /\ \A i \in LoginIds :
            (watch'[i].bcast = "raised" /\ watch[i].bcast # "raised") =>
                /\ data' = data
                /\ Len(watch'[i].wrote) = 1
                /\ watch'[i].pc = "done"]_vars

\* Both a send_password and the watch of its login had their broadcast raise.
C17_Witness ==
    /\ resp.op = "password"
    /\ resp.bcast = "raised"
    /\ resp.res = "ok"
    /\ Known(resp.login_id)
    /\ watch[resp.login_id].bcast = "raised"
    /\ watch[resp.login_id].wrote = <<data[resp.login_id].status>>

\* C18: every event broadcast is preceded by the matching status write: in
\* the step in which an event is added for a login (by the watch or by
\* send_password) exactly one event is added and the record's status has
\* been written to that event's type.
C18_WriteBeforeBroadcast ==
    [][\A i \in LoginIds :
        events'[i] # events[i] =>
            /\ i \in DOMAIN data
            /\ Len(events'[i]) = Len(events[i]) + 1
            /\ SubSeq(events'[i], 1, Len(events[i])) = events[i]
            /\ data'[i].status = events'[i][Len(events'[i])]]_vars

\* Events of both types from both sources have been broadcast.
C18_Witness ==
    \E i \in DOMAIN data :
        /\ events[i] = <<"need_password", "authorized">>
        /\ watch[i].sent = <<"need_password">>
        /\ signins[i] # << >>
        /\ data[i].status = "authorized"

\* C19: for each login_id the watch runs once and performs at most one
\* status write and at most one broadcast over its life, so at most one
\* need_password event is ever broadcast for a login_id.
C19_WatchActsOnce ==
    \A i \in LoginIds :
        /\ Len(watch[i].wrote) <= 1
        /\ Len(watch[i].sent) <= 1
        /\ Cardinality({k \in DOMAIN events[i] : events[i][k] = "need_password"}) <= 1
        /\ (watch[i].pc = "done" => watch[i].outcome # "none")

C19_Witness ==
    \E i \in DOMAIN data :
        /\ watch[i].pc = "done"
        /\ watch[i].wrote = <<"need_password">>
        /\ watch[i].sent = <<"need_password">>
        /\ Len(events[i]) = MaxEvents

Statuses == {"pending", "need_password", "authorized"}

\* C20: no operation ever writes the status failed: in every reachable
\* state every record's status is pending, need_password or authorized.
C20_NeverFailed == \A i \in DOMAIN data : data[i].status \in Statuses

\* The watch ended in an error and a password has just been rejected.
C20_Witness ==
    /\ resp.op = "password"
    /\ resp.ext = <<"sign_in_failed">>
    /\ Known(resp.login_id)
    /\ watch[resp.login_id].outcome = "error"
    /\ data[resp.login_id].status = "pending"

C12_BroadcastFanOut ==
    [][/\ \* a broadcast that ended returned, having delivered to every
          \* subscriber it took whose send did not fail
          fanout'.pc = "done" =>
            /\ fanout'.outcome = "returned"
            /\ fanout'.delivered = fanout'.taken \ fanout'.failed
            /\ \A c \in fanout'.delivered :
                    inbox'[c] # << >> /\ inbox'[c][Len(inbox'[c])] = fanout'.event
       /\ \* a failing subscriber is removed in the step in which it fails
          \A c \in fanout'.failed \ fanout.failed : c \notin subscribers'
       /\ \* an event reaches only a subscriber the broadcast took
          \A c \in Connections :
            inbox'[c] # inbox[c] =>
                /\ c \in fanout.pending
                /\ inbox'[c] = Append(inbox[c], fanout.event)
       /\ \* a broadcast takes the subscribers of the moment it is called:
          \* none that was removed before; with none it changes nothing
          events' # events =>
            /\ fanout'.taken = subscribers
            /\ subscribers' = subscribers
            /\ inbox' = inbox
            /\ subscribers = {} => fanout'.pc = "done" /\ fanout'.outcome = "returned"]_vars

\* A broadcast ended with one subscriber served after another had failed,
\* and the failed one, removed, had missed no earlier broadcast.
C12_Witness ==
    /\ fanout.pc = "done"
    /\ fanout.failed # {}
    /\ fanout.delivered # {}
    /\ fanout.failed \cap subscribers = {}
    /\ \E c \in fanout.failed : Len(inbox[c]) = 1
    /\ \E c \in fanout.delivered : Len(inbox[c]) = 2

=============================================================================
